---------------------------- MODULE Spec2Model ----------------------------
(***************************************************************************)
(* Model of the Hyperfabric MCP server (src/src/main.ts): an OpenAPI       *)
(* document is loaded at startup, one tool descriptor is generated per     *)
(* operation, and tool calls are dispatched back to the operation and      *)
(* proxied as one HTTP request.                                            *)
(*                                                                         *)
(* Strings that the code inspects character by character (paths, tool      *)
(* names, parameter names, argument strings) are sequences of one-         *)
(* character strings.  Schema objects live in a heap (node id -> object):  *)
(* deepResolveSchema assigns into the objects it visits, and the tool      *)
(* descriptors alias those objects.                                        *)
(***************************************************************************)
EXTENDS Naturals, Sequences, FiniteSets, TLC

VARIABLES
    phase,        \* position of the process: "start", "constructed", "loaded", "serving", "exited"
    tokenSet,     \* environment: HYPERFABRIC_API_TOKEN is set
    specFile,     \* environment: content of the specification file
    openApiSpec,  \* this.openApiSpec (Null before load)
    tools,        \* this.tools
    calls,        \* tool-call handlers suspended on their HTTP request, by call id
    response,     \* the last answer a handler returned, with the request it answers
    probe         \* the last application of a helper on its own, with its inputs

vars == <<phase, tokenSet, specFile, openApiSpec, tools, calls, response, probe>>

Null == [k |-> "null"]
Undefined == [k |-> "undefined"]

-----------------------------------------------------------------------------
(* Character strings *)

LowerAlpha == <<"a","b","c","d","e","f","g","h","i","j","k","l","m",
                "n","o","p","q","r","s","t","u","v","w","x","y","z">>
UpperAlpha == <<"A","B","C","D","E","F","G","H","I","J","K","L","M",
                "N","O","P","Q","R","S","T","U","V","W","X","Y","Z">>
Digits == {"0","1","2","3","4","5","6","7","8","9"}

Range(s) == {s[i] : i \in DOMAIN s}
IndexIn(s, c) == CHOOSE i \in DOMAIN s : s[i] = c

toLowerCaseChar(c) == IF c \in Range(UpperAlpha) THEN LowerAlpha[IndexIn(UpperAlpha, c)] ELSE c
toUpperCaseChar(c) == IF c \in Range(LowerAlpha) THEN UpperAlpha[IndexIn(LowerAlpha, c)] ELSE c
toLowerCase(s) == [i \in DOMAIN s |-> toLowerCaseChar(s[i])]
toUpperCase(s) == [i \in DOMAIN s |-> toUpperCaseChar(s[i])]

\* the character class [a-zA-Z0-9_] of the sanitising regular expression
IsWordChar(c) == c \in Range(LowerAlpha) \cup Range(UpperAlpha) \cup Digits \cup {"_"}

RECURSIVE Flatten(_)
Flatten(ss) == IF ss = <<>> THEN <<>> ELSE Head(ss) \o Flatten(Tail(ss))

\* String.prototype.split(sep) for a one-character separator
RECURSIVE split(_, _)
split(s, sep) ==
    IF \A i \in DOMAIN s : s[i] # sep THEN <<s>>
    ELSE LET i == CHOOSE j \in DOMAIN s : s[j] = sep /\ \A k \in 1..(j-1) : s[k] # sep
         IN <<SubSeq(s, 1, i-1)>> \o split(SubSeq(s, i+1, Len(s)), sep)

\* Array.prototype.join(sep)
RECURSIVE join(_, _)
join(parts, sep) ==
    IF parts = <<>> THEN <<>>
    ELSE IF Len(parts) = 1 THEN parts[1]
    ELSE parts[1] \o sep \o join(Tail(parts), sep)

Least(hits) == IF hits = {} THEN 0 ELSE CHOOSE i \in hits : \A j \in hits : i <= j

\* first index at which pat occurs in s, 0 when it does not occur
indexOf(s, pat) ==
    Least({i \in 1..(Len(s) + 1 - Len(pat)) : SubSeq(s, i, i + Len(pat) - 1) = pat})

ReplaceAt(s, i, n, by) ==
    IF i = 0 THEN s ELSE SubSeq(s, 1, i-1) \o by \o SubSeq(s, i + n, Len(s))

\* String.prototype.replace(pat, by) with a string pattern: the first occurrence only
\* (by never holds a "$" here: encodeURIComponent escapes it)
replace(s, pat, by) == ReplaceAt(s, indexOf(s, pat), Len(pat), by)

\* characters encodeURIComponent leaves alone: A-Z a-z 0-9 - _ . ! ~ * ' ( )
Unreserved == Range(LowerAlpha) \cup Range(UpperAlpha) \cup Digits
              \cup {"-", "_", ".", "!", "~", "*", "'", "(", ")"}

PercentCode(c) ==
    CASE c = "/" -> <<"%","2","F">>
      [] c = " " -> <<"%","2","0">>
      [] c = "{" -> <<"%","7","B">>
      [] c = "}" -> <<"%","7","D">>
      [] c = "%" -> <<"%","2","5">>
      [] c = "$" -> <<"%","2","4">>
      [] c = "[" -> <<"%","5","B">>
      [] c = "]" -> <<"%","5","D">>
      [] OTHER   -> <<"%","3","F">>   \* no other reserved character occurs in the model's strings

encodeURIComponent(s) ==
    Flatten([i \in DOMAIN s |-> IF s[i] \in Unreserved THEN <<s[i]>> ELSE PercentCode(s[i])])


-----------------------------------------------------------------------------
(* JSON values of the argument mapping *)

Str(s) == [t |-> "string", s |-> s]
JNull == [t |-> "null"]
JObject(id) == [t |-> "object", id |-> id]

\* ToBoolean: null and the empty string are falsy, objects and arrays are truthy
Truthy(v) == CASE v = Undefined -> FALSE
               [] v.t = "null" -> FALSE
               [] v.t = "string" -> v.s # <<>>
               [] OTHER -> TRUE

\* String(value), as applied by encodeURIComponent to its argument
StringOf(v) == CASE v.t = "string" -> v.s
                 [] v.t = "null" -> <<"n","u","l","l">>
                 [] OTHER -> <<"[","o","b","j","e","c","t"," ","O","b","j","e","c","t","]">>

\* args[key]: undefined for an absent key
Get(args, key) == IF key \in DOMAIN args THEN args[key] ELSE Undefined

-----------------------------------------------------------------------------
(* The OpenAPI document.                                                   *)
(*   entries        the (path, method, operation) entries in iteration      *)
(*                  order of Object.entries(paths) x Object.entries(item)   *)
(*   heap           schema and request-body objects by identity; a property *)
(*                  or items slot holds the identity of the object in it    *)
(*   schemas        components.schemas: name -> schema object               *)
(*   requestBodies  components.requestBodies: name -> request body object   *)

NoRef == <<>>
NoNode == "none"
NoId == <<>>

\* schema objects
Blank == [ref |-> NoRef, type |-> "", hasProps |-> FALSE, props |-> <<>>, items |-> NoNode,
          required |-> <<>>, content |-> NoNode]
RefNode(ptr)   == [Blank EXCEPT !.ref = ptr]
Prim(t)        == [Blank EXCEPT !.type = t]
Obj(ps, req)   == [Blank EXCEPT !.type = "object", !.hasProps = TRUE, !.props = ps, !.required = req]
Arr(it)        == [Blank EXCEPT !.type = "array", !.items = it]
SchemaRef(n)   == <<"#", "components", "schemas", n>>
BodyRef(n)     == <<"#", "components", "requestBodies", n>>

\* request body objects: a $ref, or content["application/json"].schema
Body(schema)   == [Blank EXCEPT !.content = schema]

Param(name, in, required) == [name |-> name, in |-> in, required |-> required, type |-> ""]

Operation(opId, params, body) ==
    [wellFormed |-> TRUE, operationId |-> opId, summary |-> "", parameters |-> params, requestBody |-> body]
\* a path-item entry whose value is not an object (a string such as "summary")
NotAnOperation ==
    [wellFormed |-> FALSE, operationId |-> NoId, summary |-> "", parameters |-> <<>>, requestBody |-> NoNode]

Entry(path, method, op) == [path |-> path, method |-> method, operation |-> op]

-----------------------------------------------------------------------------
(* generateToolName, main.ts 160-169 *)

\* part => part && !part.startsWith('{')
KeepPart(part) == part # <<>> /\ part[1] # "{"

RECURSIVE filterParts(_)
filterParts(parts) ==
    IF parts = <<>> THEN <<>>
    ELSE (IF KeepPart(Head(parts)) THEN <<Head(parts)>> ELSE <<>>) \o filterParts(Tail(parts))

\* .replace(/[^a-zA-Z0-9_]/g, '_')
sanitize(s) == [i \in DOMAIN s |-> IF IsWordChar(s[i]) THEN s[i] ELSE "_"]

generateToolNameKeepingPlaceholders(method, path, operation) ==
    IF operation.operationId # NoId THEN operation.operationId
    ELSE method \o <<"_">> \o sanitize(join(split(path, "/"), <<"_">>))

generateToolName(method, path, operation) ==
    IF operation.operationId # NoId THEN operation.operationId
    ELSE LET pathParts == filterParts(split(path, "/"))
             nameBase == sanitize(join(pathParts, <<"_">>))
         IN method \o <<"_">> \o nameBase

-----------------------------------------------------------------------------
(* resolveSchemaRef and deepResolveSchema, main.ts 171-211 *)

MaxResolveDepth == 5

\* the walk of resolveSchemaRef over the parts of the pointer, from the document root;
\* "none" stands for undefined.  The documents of the model point at components only.
Walk(spec, ptr) ==
    LET parts == SelectSeq(ptr, LAMBDA part : part # "#")
    IN IF Len(parts) = 3 /\ parts[1] = "components" /\ parts[2] = "schemas"
          /\ parts[3] \in DOMAIN spec.schemas
       THEN spec.schemas[parts[3]]
       ELSE IF Len(parts) = 3 /\ parts[1] = "components" /\ parts[2] = "requestBodies"
               /\ parts[3] \in DOMAIN spec.requestBodies
       THEN spec.requestBodies[parts[3]]
       ELSE NoNode

\* return resolved || schema
resolveSchemaRef(spec, schema) ==
    IF spec.heap[schema].ref # NoRef
    THEN LET resolved == Walk(spec, spec.heap[schema].ref)
         IN IF resolved # NoNode THEN resolved ELSE schema
    ELSE schema

\* schema.properties[key] = value
SetProp(props, key, value) ==
    [i \in DOMAIN props |-> IF props[i][1] = key THEN <<key, value>> ELSE props[i]]

PropKeys(props) == {props[i][1] : i \in DOMAIN props}

\* TLC evaluates an operator's argument where the operator first uses it.  The loops
\* of the model ask for the fields of their accumulator (DOMAIN acc, never empty)
\* before they take a step, so that every step is evaluated before the next one
\* starts, as the code runs them.

RECURSIVE deepResolveSchema(_, _, _)
RECURSIVE resolveProperties(_, _, _, _)

\* schema.items = <result>; return schema
AssignItems(r, schema) ==
    [spec |-> [r.spec EXCEPT !.heap[schema].items = r.value], value |-> schema]

\* lines 205-210, on the document left by the loop over the properties
ResolveItems(spec, schema, depth) ==
    IF spec.heap[schema].items = NoNode THEN [spec |-> spec, value |-> schema]
    ELSE AssignItems(deepResolveSchema(spec, spec.heap[schema].items, depth + 1), schema)

\* schema.properties[key] = <result>, and the rest of the loop; r = [spec, value] of
\* the nested call
AssignProperty(r, schema, entries, depth) ==
    resolveProperties([r.spec EXCEPT !.heap[schema].props = SetProp(@, entries[1][1], r.value)],
                      schema, Tail(entries), depth)

\* lines 198-210: the loop over Object.entries(schema.properties), whose entries are
\* read once, before the loop; then the items
resolveProperties(spec, schema, entries, depth) ==
    IF DOMAIN spec = {} \/ entries = <<>> THEN ResolveItems(spec, schema, depth)
    ELSE AssignProperty(deepResolveSchema(spec, entries[1][2], depth + 1),
                        schema, entries, depth)

\* lines 192-196: the object the reference resolves to; its properties, if it has any
ResolveObject(spec, schema, depth) ==
    resolveProperties(spec, schema, spec.heap[schema].props, depth)

\* returns the document after the assignments and the object returned
deepResolveSchema(spec, node, depth) ==
    IF depth > MaxResolveDepth \/ node = NoNode THEN [spec |-> spec, value |-> node]
    ELSE ResolveObject(spec, resolveSchemaRef(spec, node), depth)

-----------------------------------------------------------------------------
(* createToolFromOperation and generateTools, main.ts 134-158, 213-285 *)

IsMutating(method) ==
    toLowerCase(method) \in {<<"p","o","s","t">>, <<"p","u","t">>, <<"p","a","t","c","h">>}

\* summary || description || `${method.toUpperCase()} ${path}`, then the usage note
Description(method, path, operation) ==
    [text  |-> IF operation.summary # "" THEN <<operation.summary>>
               ELSE <<toUpperCase(method), path>>,
     usage |-> IF IsMutating(method) THEN toLowerCase(method) ELSE <<>>]

\* properties[key] = value
Put(properties, key, value) ==
    [k \in DOMAIN properties \cup {key} |-> IF k = key THEN value ELSE properties[k]]

\* lines 238-247, for one parameter
AddParameter(acc, param) ==
    IF param.in \in {"path", "query"}
    THEN [properties |-> Put(acc.properties, param.name,
                             [kind |-> "parameter",
                              type |-> IF param.type # "" THEN param.type ELSE "string"]),
          required |-> IF param.required THEN Append(acc.required, param.name)
                       ELSE acc.required]
    ELSE acc

\* the loop over operation.parameters; acc = [properties, required]
RECURSIVE ParameterProperties(_, _)
ParameterProperties(params, acc) ==
    IF params = <<>> THEN acc
    ELSE ParameterProperties(Tail(params), AddParameter(acc, Head(params)))

RECURSIVE BodyProperties(_, _, _)

\* properties[propName] = <result> and required.push(propName) whatever the schema
\* lists, and the rest of the loop
AddBodyPropertyAlwaysRequired(acc, schema, entries, r) ==
    BodyProperties(schema, Tail(entries),
                   [spec |-> r.spec,
                    properties |-> Put(acc.properties, entries[1][1],
                                       [kind |-> "schema", node |-> r.value]),
                    required |-> Append(acc.required, entries[1][1])])

\* lines 265-270 for the first of the entries, and the rest of the loop;
\* r = [spec, value] of deepResolveSchema(propDef, 0)
AddBodyProperty(acc, schema, entries, r) ==
    BodyProperties(schema, Tail(entries),
                   [spec |-> r.spec,
                    properties |-> Put(acc.properties, entries[1][1],
                                       [kind |-> "schema", node |-> r.value]),
                    required |-> IF entries[1][1] \in Range(r.spec.heap[schema].required)
                                 THEN Append(acc.required, entries[1][1])
                                 ELSE acc.required])

\* the loop over Object.entries(schema.properties) of the resolved body schema;
\* acc = [spec, properties, required]
BodyProperties(schema, entries, acc) ==
    IF DOMAIN acc = {} \/ entries = <<>> THEN acc
    ELSE AddBodyProperty(acc, schema, entries,
                         deepResolveSchema(acc.spec, entries[1][2], 0))

\* lines 260-272; resolved = [spec, value] of deepResolveSchema(schema)
ExposeBody(resolved, acc) ==
    IF resolved.spec.heap[resolved.value].hasProps
    THEN BodyProperties(resolved.value, resolved.spec.heap[resolved.value].props,
                        [acc EXCEPT !.spec = resolved.spec])
    ELSE [acc EXCEPT !.spec = resolved.spec]

\* content?.['application/json']?.schema of the resolved request body
BodySchema(spec, operation) == spec.heap[resolveSchemaRef(spec, operation.requestBody)].content

\* lines 252-274; acc = [spec, properties, required]
RequestBodyProperties(method, operation, acc) ==
    IF operation.requestBody # NoNode /\ IsMutating(method)
       /\ BodySchema(acc.spec, operation) # NoNode
    THEN ExposeBody(deepResolveSchema(acc.spec, BodySchema(acc.spec, operation), 0), acc)
    ELSE acc

\* lines 276-284
MakeTool(name, description, acc) ==
    [spec |-> acc.spec,
     tool |-> [name |-> name, description |-> description,
               inputSchema |-> [type |-> "object", properties |-> acc.properties,
                                required |-> acc.required]]]

WithSpec(spec, acc) == [spec |-> spec, properties |-> acc.properties, required |-> acc.required]

\* returns the document after resolution and the tool
createToolFromOperation(spec, name, method, path, operation) ==
    MakeTool(name, Description(method, path, operation),
             RequestBodyProperties(method, operation,
                 WithSpec(spec, ParameterProperties(operation.parameters,
                                                    [properties |-> <<>>, required |-> <<>>]))))

\* this.tools.push(tool)
PushTool(ts, made) == [spec |-> made.spec, tools |-> Append(ts, made.tool)]

\* lines 144-153, for one entry; acc = [spec, tools]
GenerateEntry(acc, e) ==
    IF ~e.operation.wellFormed THEN acc
    ELSE PushTool(acc.tools,
                  createToolFromOperation(acc.spec,
                                          generateToolName(e.method, e.path, e.operation),
                                          e.method, e.path, e.operation))

\* the loops of generateTools over the entries
RECURSIVE GenerateLoop(_, _)
GenerateLoop(entries, acc) ==
    IF DOMAIN acc = {} \/ entries = <<>> THEN acc
    ELSE GenerateLoop(Tail(entries), GenerateEntry(acc, Head(entries)))

\* returns this.openApiSpec and this.tools after the call
generateTools(spec, oldTools) ==
    IF ~spec.hasPaths THEN [spec |-> spec, tools |-> oldTools]
    ELSE GenerateLoop(spec.entries, [spec |-> spec, tools |-> <<>>])

-----------------------------------------------------------------------------
(* Documents the specification file may hold *)

GET == <<"g","e","t">>
POST == <<"p","o","s","t">>
PUT == <<"p","u","t">>

kId == <<"i","d">>
kNd == <<"n","d">>
kQ == <<"q">>
kH == <<"h">>
kFs == <<"f","s">>
kNm == <<"n","m">>
kX == <<"x">>
kRequestBody == <<"r","e","q","u","e","s","t","B","o","d","y">>
kHasOwnProperty == <<"h","a","s","O","w","n","P","r","o","p","e","r","t","y">>

Slash == <<"/">>
Placeholder(name) == <<"{">> \o name \o <<"}">>
PathFab == Slash \o <<"f","a","b">>
PathFabId == PathFab \o Slash \o Placeholder(kId)
PathFabIdNode == PathFabId \o Slash \o <<"n">> \o Slash \o Placeholder(kNd)
PathADashB == Slash \o <<"a","-","b">>
PathAIdB == Slash \o <<"a">> \o Slash \o Placeholder(kId) \o Slash \o <<"b">>
PathC == Slash \o <<"c">>
PathT == Slash \o <<"t">>
PathTIdId == PathT \o Slash \o Placeholder(kId) \o Slash \o Placeholder(kId)

\* every operation carries an operationId; bodies by reference, nested references
DocFabric ==
    [hasPaths |-> TRUE,
     entries |-> <<
        Entry(PathFab, GET, Operation(<<"l","f">>,
              <<Param(kQ, "query", FALSE), Param(kH, "header", TRUE)>>, NoNode)),
        Entry(PathFab, POST, Operation(<<"a","f">>, <<>>, "b1")),
        Entry(PathFabIdNode, GET, Operation(<<"g","n">>,
              <<Param(kId, "path", TRUE), Param(kNd, "path", TRUE), Param(kQ, "query", FALSE)>>,
              NoNode)),
        Entry(PathFabId, PUT, Operation(<<"u","f">>, <<Param(kId, "path", TRUE)>>, "b2")) >>,
     schemas |-> [n \in {"Fabs", "Fab", "Name"} |->
                    CASE n = "Fabs" -> "nFabs" [] n = "Fab" -> "nFab" [] OTHER -> "nName"],
     requestBodies |-> [n \in {"FabBody"} |-> "bFab"],
     heap |-> [i \in {"b1", "s0", "nFabs", "a1", "r1", "nFab", "r2", "nName", "p1",
                      "b2", "bFab", "s1", "p2", "p3"} |->
        CASE i = "b1"    -> Body("s0")
          [] i = "s0"    -> RefNode(SchemaRef("Fabs"))
          [] i = "nFabs" -> Obj(<< <<kFs, "a1">>, <<kNm, "p1">> >>, <<kFs>>)
          [] i = "a1"    -> Arr("r1")
          [] i = "r1"    -> RefNode(SchemaRef("Fab"))
          [] i = "nFab"  -> Obj(<< <<kNm, "r2">> >>, <<>>)
          [] i = "r2"    -> RefNode(SchemaRef("Name"))
          [] i = "nName" -> Prim("string")
          [] i = "p1"    -> Prim("string")
          [] i = "b2"    -> RefNode(BodyRef("FabBody"))
          [] i = "bFab"  -> Body("s1")
          [] i = "s1"    -> Obj(<< <<kNm, "p2">>, <<kId, "p3">> >>, <<kNm>>)
          [] i = "p2"    -> Prim("string")
          [] OTHER       -> Prim("integer")]]

\* no operationId anywhere: names are synthesised from method and path
DocNoIds ==
    [hasPaths |-> TRUE,
     entries |-> <<
        Entry(PathFab, GET, Operation(NoId, <<Param(kQ, "query", FALSE)>>, NoNode)),
        Entry(PathFab, <<"s","u","m","m","a","r","y">>, NotAnOperation),
        Entry(PathFabId, GET, Operation(NoId, <<Param(kId, "path", TRUE)>>, NoNode)),
        Entry(PathADashB, POST, Operation(NoId, <<>>, "b1")),
        Entry(PathAIdB, GET, Operation(NoId,
              <<Param(kId, "path", TRUE), Param(kQ, "query", TRUE)>>, NoNode)) >>,
     schemas |-> <<>>,
     requestBodies |-> <<>>,
     heap |-> [i \in {"b1", "s0", "p1"} |->
        CASE i = "b1" -> Body("s0")
          [] i = "s0" -> Obj(<< <<kFs, "p1">> >>, <<kFs, kX>>)
          [] OTHER    -> Prim("array")]]

\* a reference whose target is itself a reference, and a reference to nothing
DocChain ==
    [hasPaths |-> TRUE,
     entries |-> <<
        Entry(PathC, POST, Operation(<<"c","c">>, <<>>, "b1")),
        Entry(PathC, GET, Operation(<<"l","c">>, <<>>, NoNode)) >>,
     schemas |-> [n \in {"A", "B", "C", "D"} |->
                    CASE n = "A" -> "nA" [] n = "B" -> "nB" [] n = "C" -> "nC" [] OTHER -> "nD"],
     requestBodies |-> <<>>,
     heap |-> [i \in {"b1", "s0", "rA", "rM", "nA", "nB", "rC", "nC", "nD"} |->
        CASE i = "b1" -> Body("s0")
          [] i = "s0" -> Obj(<< <<kFs, "rA">>, <<kNm, "rM">> >>, <<kFs>>)
          [] i = "rA" -> RefNode(SchemaRef("A"))
          [] i = "rM" -> RefNode(SchemaRef("Missing"))
          [] i = "nA" -> RefNode(SchemaRef("B"))
          [] i = "nB" -> Obj(<< <<kNm, "rC">> >>, <<>>)
          [] i = "rC" -> RefNode(SchemaRef("C"))
          [] i = "nC" -> RefNode(SchemaRef("D"))
          [] OTHER    -> Prim("string")]]

\* a schema that refers to itself; a template that names one parameter twice
DocTree ==
    [hasPaths |-> TRUE,
     entries |-> <<
        Entry(PathT, POST, Operation(<<"p","t">>, <<>>, "b1")),
        Entry(PathTIdId, GET, Operation(<<"t","t">>, <<Param(kId, "path", TRUE)>>, NoNode)) >>,
     schemas |-> [n \in {"Tree"} |-> "nTree"],
     requestBodies |-> <<>>,
     heap |-> [i \in {"b1", "s0", "nTree", "rT", "p1"} |->
        CASE i = "b1"    -> Body("s0")
          [] i = "s0"    -> RefNode(SchemaRef("Tree"))
          [] i = "nTree" -> Obj(<< <<kFs, "rT">>, <<kNm, "p1">> >>, <<kNm>>)
          [] i = "rT"    -> RefNode(SchemaRef("Tree"))
          [] OTHER       -> Prim("string")]]

\* six schemas that refer to one another in a ring: a reference cycle longer than
\* the depth limit of deepResolveSchema
DocRing ==
    [hasPaths |-> TRUE,
     entries |-> << Entry(PathC, POST, Operation(<<"r","r">>, <<>>, "b1")) >>,
     schemas |-> [n \in {"S1", "S2", "S3", "S4", "S5", "S6"} |->
                    CASE n = "S1" -> "n1" [] n = "S2" -> "n2" [] n = "S3" -> "n3"
                      [] n = "S4" -> "n4" [] n = "S5" -> "n5" [] OTHER -> "n6"],
     requestBodies |-> <<>>,
     heap |-> [i \in {"b1", "s0", "n1", "n2", "n3", "n4", "n5", "n6",
                      "r1", "r2", "r3", "r4", "r5", "r6"} |->
        CASE i = "b1" -> Body("s0")
          [] i = "s0" -> RefNode(SchemaRef("S1"))
          [] i = "n1" -> Obj(<< <<kNm, "r1">> >>, <<>>)
          [] i = "n2" -> Obj(<< <<kNm, "r2">> >>, <<>>)
          [] i = "n3" -> Obj(<< <<kNm, "r3">> >>, <<>>)
          [] i = "n4" -> Obj(<< <<kNm, "r4">> >>, <<>>)
          [] i = "n5" -> Obj(<< <<kNm, "r5">> >>, <<>>)
          [] i = "n6" -> Obj(<< <<kNm, "r6">> >>, <<>>)
          [] i = "r1" -> RefNode(SchemaRef("S2"))
          [] i = "r2" -> RefNode(SchemaRef("S3"))
          [] i = "r3" -> RefNode(SchemaRef("S4"))
          [] i = "r4" -> RefNode(SchemaRef("S5"))
          [] i = "r5" -> RefNode(SchemaRef("S6"))
          [] OTHER    -> RefNode(SchemaRef("S1"))]]

\* valid JSON without a paths member
DocNoPaths ==
    [hasPaths |-> FALSE, entries |-> <<>>, schemas |-> <<>>, requestBodies |-> <<>>,
     heap |-> <<>>]

Documents == {DocFabric, DocNoIds, DocChain, DocTree, DocNoPaths}

-----------------------------------------------------------------------------
(* executeApiCall up to the HTTP request, main.ts 332-419 *)

Error(message) == [name |-> "Error", message |-> message]
TypeError(message) == [name |-> "TypeError", message |-> message]
\* the text pre + about + post, where about is a string taken from the input
Message(pre, about, post) == [pre |-> pre, about |-> about, post |-> post]

Throw(spec, error) == [spec |-> spec, k |-> "throw", error |-> error]

NameOf(e) == generateToolName(e.method, e.path, e.operation)

\* the scan of lines 343-356: the first well-formed entry whose name matches; 0 if none
FindOperation(spec, toolName) ==
    Least({i \in DOMAIN spec.entries :
              spec.entries[i].operation.wellFormed /\ NameOf(spec.entries[i]) = toolName})

\* lines 369-376, for one parameter; acc = [url, params]
BindParameter(acc, param, value) ==
    IF value = Undefined THEN acc
    ELSE IF param.in = "path"
    THEN [acc EXCEPT !.url = replace(@, Placeholder(param.name),
                                     encodeURIComponent(StringOf(value)))]
    ELSE IF param.in = "query"
    THEN [acc EXCEPT !.params = Put(@, param.name, value)]
    ELSE acc

\* the loop of lines 367-378 over operation.parameters; args is an object here
RECURSIVE BindParameters(_, _, _)
BindParameters(params, args, acc) ==
    IF params = <<>> THEN acc
    ELSE BindParameters(Tail(params), args,
                        BindParameter(acc, Head(params), Get(args, Head(params).name)))

\* lines 363-378: [url, params]
Bound(foundOperation, args) ==
    IF args = Undefined THEN [url |-> foundOperation.path, params |-> <<>>]
    ELSE BindParameters(foundOperation.operation.parameters, args,
                        [url |-> foundOperation.path, params |-> <<>>])

\* the loop of lines 405-409 over Object.keys(schema.properties)
CollectBody(props, args) ==
    [k \in {key \in PropKeys(props) : key \in DOMAIN args} |-> args[k]]

\* requestConfig.data: absent, or a JSON value
NoData == [k |-> "nodata"]
JsonData(value) == [k |-> "data", value |-> value]
Data(spec, data) == [spec |-> spec, k |-> "data", data |-> data]

\* lines 413-415
NonEmpty(requestBody) ==
    IF DOMAIN requestBody # {} THEN JsonData(requestBody) ELSE NoData

\* lines 404-415; args.hasOwnProperty is not callable when args has a key of that name
BodyFromProperties(spec, props, args) ==
    IF props # <<>> /\ kHasOwnProperty \in DOMAIN args
    THEN Throw(spec, TypeError(Message("args.hasOwnProperty is not a function", <<>>, "")))
    ELSE Data(spec, NonEmpty(CollectBody(props, args)))

\* schema?.properties of the resolved schema; r = [spec, value] of deepResolveSchema
BodyFromSchema(r, args) ==
    BodyFromProperties(r.spec,
                       IF r.value # NoNode /\ r.spec.heap[r.value].hasProps
                       THEN r.spec.heap[r.value].props ELSE <<>>,
                       args)

\* if (args.requestBody)
UsesLegacyBody(args) == Truthy(Get(args, kRequestBody))

\* lines 388-417; returns the document after resolution and the body (NoData: none),
\* or the throw
RequestData(spec, operation, args) ==
    IF args = Undefined
    THEN Throw(spec, TypeError(Message("Cannot read properties of undefined (reading '",
                                       kRequestBody, "')")))
    ELSE IF UsesLegacyBody(args) THEN Data(spec, JsonData(args[kRequestBody]))
    ELSE IF operation.requestBody = NoNode THEN Data(spec, NoData)
    ELSE BodyFromSchema(deepResolveSchema(spec, BodySchema(spec, operation), 0), args)

\* lines 381-385 and 391, 414
Request(method, bound, body) ==
    IF body.k = "throw" THEN body
    ELSE [spec |-> body.spec, k |-> "request",
          config |-> [method |-> toUpperCase(method), url |-> bound.url,
                      params |-> bound.params, data |-> body.data]]

\* lines 362-419 for the operation found
BuildRequest(spec, foundOperation, args) ==
    IF args = Undefined /\ foundOperation.operation.parameters # <<>>
    THEN Throw(spec, TypeError(Message("Cannot read properties of undefined (reading '",
                                       foundOperation.operation.parameters[1].name, "')")))
    ELSE Request(foundOperation.method, Bound(foundOperation, args),
                 IF IsMutating(foundOperation.method)
                 THEN RequestData(spec, foundOperation.operation, args)
                 ELSE Data(spec, NoData))

\* lines 358-360
Dispatch(spec, toolName, args, found) ==
    IF found = 0
    THEN Throw(spec, Error(Message("No operation found for tool: ", toolName, "")))
    ELSE BuildRequest(spec, spec.entries[found], args)

\* returns [spec, k = "throw", error] or [spec, k = "request", config]
executeApiCall(spec, toolName, args) ==
    IF spec = Null \/ ~spec.hasPaths
    THEN Throw(spec, Error(Message("OpenAPI spec not loaded", <<>>, "")))
    ELSE Dispatch(spec, toolName, args, FindOperation(spec, toolName))

-----------------------------------------------------------------------------
(* The end of executeApiCall (lines 421-433) and the tool-call handler      *)
(* (lines 292-329)                                                          *)

\* what httpClient.request may do
HttpOutcomes ==
    { [k |-> "response", status |-> <<"2","0","0">>],   \* resolves
      [k |-> "status", status |-> <<"4","0","4">>],     \* AxiosError carrying a response
      [k |-> "network"],                     \* AxiosError without a response
      [k |-> "other"] }                      \* rejects with another Error

\* lines 421-433: the result, or the error thrown
AfterRequest(outcome) ==
    CASE outcome.k = "response" -> [k |-> "return", result |-> [status |-> outcome.status]]
      [] outcome.k = "status"   -> [k |-> "throw",
                                    error |-> Error(Message("API call failed: ", outcome.status,
                                                            " Not Found - {}"))]
      [] outcome.k = "network"  -> [k |-> "throw",
                                    error |-> Error(Message(
                                        "API call failed: undefined undefined - undefined",
                                        <<>>, ""))]
      [] OTHER                  -> [k |-> "throw",
                                    error |-> Error(Message("socket hang up", <<>>, ""))]

\* lines 308-315: the success payload
ResultPayload(result) ==
    [thrown |-> FALSE, isError |-> FALSE, text |-> [prefix |-> "", body |-> result]]

\* lines 316-328: the catch clause
ErrorPayload(error) ==
    [thrown |-> FALSE, isError |-> TRUE, text |-> [prefix |-> "Error: ", body |-> error.message]]

\* a handler without the catch clause: the error leaves the handler
Rethrow(error) ==
    [thrown |-> TRUE, isError |-> FALSE, text |-> [prefix |-> "", body |-> error.message]]


CatchClause(error) == ErrorPayload(error)

ToolNotFound(name) == Error(Message("Tool ", name, " not found"))

HasTool(ts, name) == \E i \in DOMAIN ts : ts[i].name = name

StartCallWithoutLookup(spec, ts, name, args) == executeApiCall(spec, name, args)

\* the handler up to its await: the registry lookup, then executeApiCall
StartCall(spec, ts, name, args) ==
    IF ~HasTool(ts, name) THEN Throw(spec, ToolNotFound(name))
    ELSE executeApiCall(spec, name, args)

-----------------------------------------------------------------------------
(* The process: construction, run(), and the two request handlers *)

\* calls the transport lets run at the same time
CallIds == {"c1", "c2"}

Idle == [k |-> "idle"]
None == [k |-> "none"]

File(doc) == [k |-> "json", doc |-> doc]
Missing == [k |-> "ENOENT"]
Malformed == [k |-> "SyntaxError"]
Unreadable == [k |-> "EACCES"]
SpecFiles == {Missing, Malformed, Unreadable} \cup {File(d) : d \in Documents}

ToolNames(ts) == {ts[i].name : i \in DOMAIN ts}
UnknownName == <<"z","z">>

\* argument mappings of the requests; Undefined: the request carries no arguments
ArgSamples ==
    { Undefined,
      <<>>,
      (kId :> Str(<<"a","/","b">>)) @@ (kNd :> Str(<<"n","2">>)) @@ (kQ :> Str(<<"x"," ">>))
          @@ (kFs :> JObject("o1")) @@ (kX :> JNull),
      (kHasOwnProperty :> Str(<<"y">>)) @@ (kFs :> JObject("o1")) @@ (kNm :> Str(<<"n">>)),
      (kRequestBody :> JObject("o2")) @@ (kFs :> JObject("o1")) @@ (kId :> Str(<<"i","1">>)) }

Init ==
    /\ phase = "start"
    /\ tokenSet \in BOOLEAN
    /\ specFile \in SpecFiles
    /\ openApiSpec = Null
    /\ tools = <<>>
    /\ calls = [c \in CallIds |-> Idle]
    /\ response = None
    /\ probe = None

\* constructor, main.ts 68-100: the token check; setupHandlers registers the handlers
Construct ==
    /\ phase = "start"
    /\ phase' = IF tokenSet THEN "constructed" ELSE "exited"
    /\ UNCHANGED <<tokenSet, specFile, openApiSpec, tools, calls, response, probe>>

\* lines 113-121, g = [spec, tools] of generateTools
Loaded(g) ==
    /\ openApiSpec' = g.spec
    /\ tools' = g.tools
    /\ phase' = "loaded"

\* a loader that logs a failed load and goes on with nothing loaded
LoadOpenAPISpecDegraded ==
    /\ phase = "constructed"
    /\ IF specFile.k = "json"
       THEN Loaded(generateTools(specFile.doc, tools))
       ELSE /\ phase' = "loaded"
            /\ UNCHANGED <<openApiSpec, tools>>
    /\ UNCHANGED <<tokenSet, specFile, calls, response, probe>>

\* loadOpenAPISpec, main.ts 102-132: read, parse, generateTools; exit on any failure
LoadOpenAPISpec ==
    /\ phase = "constructed"
    /\ IF specFile.k = "json"
       THEN Loaded(generateTools(specFile.doc, tools))
       ELSE /\ phase' = "exited"
            /\ UNCHANGED <<openApiSpec, tools>>
    /\ UNCHANGED <<tokenSet, specFile, calls, response, probe>>

\* a run() that connects the transport without awaiting loadOpenAPISpec
ConnectBeforeLoad ==
    /\ phase \in {"constructed", "loaded"}
    /\ phase' = "serving"
    /\ UNCHANGED <<tokenSet, specFile, openApiSpec, tools, calls, response, probe>>

\* run, main.ts 439-440: the transport is connected
Connect ==
    /\ phase = "loaded"
    /\ phase' = "serving"
    /\ UNCHANGED <<tokenSet, specFile, openApiSpec, tools, calls, response, probe>>

\* the tool-list handler, main.ts 288-290
ListTools ==
    /\ phase = "serving"
    /\ response' = [kind |-> "list", tools |-> tools]
    /\ UNCHANGED <<phase, tokenSet, specFile, openApiSpec, tools, calls, probe>>

Answer(name, args, config, requests, payload) ==
    [kind |-> "call", name |-> name, args |-> args, config |-> config,
     requests |-> requests, payload |-> payload]

\* a handler that keeps the URL it has bound in one place for all calls
StartedSharingUrl(c, name, args, r) ==
    /\ openApiSpec' = r.spec
    /\ IF r.k = "throw"
       THEN /\ response' = Answer(name, args, None, 0, CatchClause(r.error))
            /\ UNCHANGED calls
       ELSE /\ calls' = [d \in CallIds |->
                            IF d = c
                            THEN [k |-> "awaiting", name |-> name, args |-> args,
                                  config |-> r.config, requests |-> 1]
                            ELSE IF calls[d] = Idle THEN Idle
                            ELSE [calls[d] EXCEPT !.config.url = r.config.url]]
            /\ UNCHANGED response

\* the handler after StartCall returned r: answer from the catch clause, or suspend
\* on the HTTP request
Started(c, name, args, r) ==
    /\ openApiSpec' = r.spec
    /\ IF r.k = "throw"
       THEN /\ response' = Answer(name, args, None, 0, CatchClause(r.error))
            /\ UNCHANGED calls
       ELSE /\ calls' = [calls EXCEPT ![c] =
                            [k |-> "awaiting", name |-> name, args |-> args,
                             config |-> r.config, requests |-> 1]]
            /\ UNCHANGED response

\* the tool-call handler from the request to its await (or to its return, when
\* something throws before the HTTP request)
CallTool(c, name, args) ==
    /\ phase = "serving"
    /\ calls[c] = Idle
    /\ Started(c, name, args, StartCall(openApiSpec, tools, name, args))
    /\ UNCHANGED <<phase, tokenSet, specFile, tools, probe>>

Settled(after, call) ==
    [call |-> Idle, answered |-> TRUE, requests |-> call.requests,
     payload |-> IF after.k = "return" THEN ResultPayload(after.result)
                 ELSE CatchClause(after.error)]

\* what the handler does when its HTTP request settles (lines 421-433, 308-328):
\* the call is over and answered
Settle(call, outcome) == Settled(AfterRequest(outcome), call)

Resumed(c, s) ==
    /\ calls' = [calls EXCEPT ![c] = s.call]
    /\ response' = IF s.answered
                   THEN Answer(calls[c].name, calls[c].args, calls[c].config,
                               s.requests, s.payload)
                   ELSE response

\* the HTTP request of call c settles and the handler runs to its return
HttpSettles(c, outcome) ==
    /\ phase = "serving"
    /\ calls[c] # Idle
    /\ Resumed(c, Settle(calls[c], outcome))
    /\ UNCHANGED <<phase, tokenSet, specFile, openApiSpec, tools, probe>>

Next ==
    \/ Construct
    \/ LoadOpenAPISpec
    \/ Connect
    \/ ListTools
    \/ \E c \in CallIds, name \in ToolNames(tools) \cup {UnknownName}, args \in ArgSamples :
          CallTool(c, name, args)
    \/ \E c \in CallIds, outcome \in HttpOutcomes : HttpSettles(c, outcome)

Spec == Init /\ [][Next]_vars

-----------------------------------------------------------------------------
(* The dispatcher and the naming function on their own, over every argument *)
(* mapping of at most MaxArgKeys keys, in a server that has started          *)

MaxArgKeys == 2

ArgKeys == {kId, kNd, kQ, kFs, kNm, kX, kRequestBody, kHasOwnProperty}
ArgValues == {Str(<<"a","/","b">>), JNull, JObject("o1")}
AllArgs ==
    {Undefined} \cup
    UNION {[K -> ArgValues] : K \in {K \in SUBSET ArgKeys : Cardinality(K) <= MaxArgKeys}}

ProbeMethods == {GET, POST}
ProbePaths == {PathFab, PathFabId, PathFabIdNode, PathADashB, PathAIdB, PathC,
               Slash \o <<"a">> \o Slash \o <<"b">>,
               Slash \o Placeholder(kId) \o <<".","x">> \o Slash \o <<"a","{","b">>}
ProbeIds == {NoId, <<"l","f">>}

Started0(g) ==
    /\ openApiSpec = g.spec
    /\ tools = g.tools

InitDispatch ==
    /\ phase = "serving"
    /\ tokenSet = TRUE
    /\ specFile \in {File(d) : d \in Documents}
    /\ Started0(generateTools(specFile.doc, <<>>))
    /\ calls = [c \in CallIds |-> Idle]
    /\ response = None
    /\ probe = None

\* generateToolName applied to (method, path, operation)
ApplyGenerateToolName(method, path, opId) ==
    /\ probe = None
    /\ probe' = [op |-> "generateToolName", method |-> method, path |-> path,
                 operationId |-> opId,
                 value |-> generateToolName(method, path, Operation(opId, <<>>, NoNode))]
    /\ UNCHANGED <<phase, tokenSet, specFile, openApiSpec, tools, calls, response>>

Dispatched(name, args, before, out) ==
    /\ probe' = [op |-> "executeApiCall", name |-> name, args |-> args, before |-> before,
                 k |-> out.k, out |-> IF out.k = "throw" THEN out.error ELSE out.config]
    /\ openApiSpec' = out.spec

\* executeApiCall applied to (toolName, args), up to its HTTP request
ApplyExecuteApiCall(name, args) ==
    /\ probe = None
    /\ Dispatched(name, args, openApiSpec, executeApiCall(openApiSpec, name, args))
    /\ UNCHANGED <<phase, tokenSet, specFile, tools, calls, response>>

\* the result is taken; the document stays as the application left it
TakeResult ==
    /\ probe # None
    /\ probe' = None
    /\ UNCHANGED <<phase, tokenSet, specFile, openApiSpec, tools, calls, response>>

NextDispatch ==
    \/ TakeResult
    \/ \E method \in ProbeMethods, path \in ProbePaths, opId \in ProbeIds :
          ApplyGenerateToolName(method, path, opId)
    \/ \E name \in ToolNames(tools) \cup {UnknownName}, args \in AllArgs :
          ApplyExecuteApiCall(name, args)

DispatchSpec == InitDispatch /\ [][NextDispatch]_vars

-----------------------------------------------------------------------------
(* deepResolveSchema applied to the schema objects of a parsed document,    *)
(* main.ts 187-211                                                          *)

ResolveDocuments == {DocFabric, DocNoIds, DocChain, DocTree, DocRing}

InitResolve ==
    /\ phase = "constructed"
    /\ tokenSet = TRUE
    /\ specFile \in {File(d) : d \in ResolveDocuments}
    /\ openApiSpec = specFile.doc
    /\ tools = <<>>
    /\ calls = [c \in CallIds |-> Idle]
    /\ response = None
    /\ probe = None

Resolved(node, before, r) ==
    /\ probe' = [op |-> "deepResolveSchema", node |-> node, before |-> before,
                 value |-> r.value]
    /\ openApiSpec' = r.spec

\* deepResolveSchema(schema) with the default depth 0, on an object of the document
ApplyDeepResolveSchema(node) ==
    /\ probe = None
    /\ Resolved(node, openApiSpec, deepResolveSchema(openApiSpec, node, 0))
    /\ UNCHANGED <<phase, tokenSet, specFile, tools, calls, response>>

ResolvedAgain(first, r) ==
    /\ probe' = [op |-> "deepResolveSchemaTwice", node |-> probe.node,
                 before |-> probe.before, first |-> first, value |-> r.value]
    /\ openApiSpec' = r.spec

\* deepResolveSchema applied to the schema a first application returned
ApplyDeepResolveSchemaAgain ==
    /\ probe # None
    /\ probe.op = "deepResolveSchema"
    /\ ResolvedAgain([spec |-> openApiSpec, value |-> probe.value],
                     deepResolveSchema(openApiSpec, probe.value, 0))
    /\ UNCHANGED <<phase, tokenSet, specFile, tools, calls, response>>

NextResolve ==
    \/ TakeResult
    \/ \E node \in DOMAIN openApiSpec.heap : ApplyDeepResolveSchema(node)
    \/ ApplyDeepResolveSchemaAgain

ResolveSpec == InitResolve /\ [][NextResolve]_vars

-----------------------------------------------------------------------------
(* Properties *)

Serving == phase = "serving"
WellFormed(spec) == {i \in DOMAIN spec.entries : spec.entries[i].operation.wellFormed}
Answered == response # None /\ response.kind = "call"

\* C1: for every operation that produced a tool, the scan of executeApiCall for the
\* tool's name selects that same operation, and no two tools share a name.
C1_NameRoundTrip ==
    (Serving /\ openApiSpec.hasPaths) =>
        /\ \A i \in WellFormed(openApiSpec) :
              FindOperation(openApiSpec, NameOf(openApiSpec.entries[i])) = i
        /\ \A i, j \in DOMAIN tools : tools[i].name = tools[j].name => i = j

\* C2: every answer of the tool-call handler is a payload it returned, never an error
\* that left the handler; a call that failed before its HTTP request, and a call whose
\* HTTP request failed, is answered with isError and the text "Error: <message>"; and
\* the server is still serving after every answer.
C2_HandlerNeverThrows ==
    Answered =>
        /\ ~response.payload.thrown
        /\ Serving
        /\ response.payload.text.prefix = (IF response.payload.isError THEN "Error: " ELSE "")
        /\ response.config = None => response.payload.isError
        /\ response.payload.isError <=>
              \/ response.config = None
              \/ \E o \in HttpOutcomes :
                    /\ o.k # "response"
                    /\ response.payload.text.body = AfterRequest(o).error.message

\* C2 witness: a call of a known tool without arguments failed while the request was
\* built, and was answered with the error payload
C2_Witness ==
    /\ Answered
    /\ response.args = Undefined
    /\ HasTool(tools, response.name)
    /\ response.payload.isError
    /\ response.payload.text.body.pre = "Cannot read properties of undefined (reading '"

\* C3 as stated: a call whose name matches no operation is answered
\* "Error: No operation found for tool: <name>".
C3_NoOperationFoundText ==
    (Answered /\ openApiSpec.hasPaths /\ FindOperation(openApiSpec, response.name) = 0) =>
        response.payload =
            ErrorPayload(Error(Message("No operation found for tool: ", response.name, "")))

\* C3 amended: a call whose name matches no operation is answered, without an HTTP
\* request, with isError and the text "Error: Tool <name> not found" (the registry
\* lookup of the handler fails before the dispatcher scans the specification).
C3_ToolNotFoundText ==
    (Answered /\ (~openApiSpec.hasPaths \/ FindOperation(openApiSpec, response.name) = 0)) =>
        /\ response.payload = ErrorPayload(Error(Message("Tool ", response.name, " not found")))
        /\ response.requests = 0

C3_Witness ==
    /\ Answered
    /\ response.name = UnknownName
    /\ openApiSpec.hasPaths
    /\ response.payload.isError

ProbeCall == probe # None /\ probe.op = "executeApiCall"
\* a request was built: the name resolved
ProbeRequest == ProbeCall /\ probe.k = "request"
FoundEntry(spec, name) == spec.entries[FindOperation(spec, name)]

\* the property names of the body schema, one reference followed
DeclaredBodyKeys(spec, operation) ==
    IF operation.requestBody = NoNode \/ BodySchema(spec, operation) = NoNode THEN {}
    ELSE PropKeys(spec.heap[resolveSchemaRef(spec, BodySchema(spec, operation))].props)

Resolves(spec, name) == spec # Null /\ spec.hasPaths /\ FindOperation(spec, name) # 0
Keys(args) == IF args = Undefined THEN {} ELSE DOMAIN args

\* the body the declared arguments make: none when no declared argument is present
DeclaredArgumentsBody(declared, args) ==
    IF declared \cap Keys(args) = {} THEN NoData
    ELSE JsonData([k \in declared \cap Keys(args) |-> args[k]])

\* C4: a dispatch to a post/put/patch operation with an argument mapping that has no
\* requestBody entry sends a request whose body holds exactly the arguments that are
\* declared properties of the body schema, each with its value, and sends the request
\* without a body when no declared argument is present.
C4_BodyHoldsDeclaredArguments ==
    (/\ ProbeCall
     /\ probe.args # Undefined
     /\ Resolves(probe.before, probe.name)
     /\ IsMutating(FoundEntry(probe.before, probe.name).method)
     /\ kRequestBody \notin Keys(probe.args)) =>
        /\ probe.k = "request"
        /\ probe.out.data =
              DeclaredArgumentsBody(
                  DeclaredBodyKeys(probe.before, FoundEntry(probe.before, probe.name).operation),
                  probe.args)

\* C5: a request for a post/put/patch operation whose arguments have a requestBody
\* entry carries exactly that value as body (a null value read as "no body"), and no
\* schema-declared argument is copied.
C5_LegacyBodyWins ==
    (/\ ProbeRequest
     /\ IsMutating(FoundEntry(probe.before, probe.name).method)
     /\ kRequestBody \in Keys(probe.args)) =>
        \/ probe.out.data = JsonData(probe.args[kRequestBody])
        \/ probe.args[kRequestBody] = JNull /\ probe.out.data = NoData

DeclaredParameters(operation, in) ==
    {operation.parameters[i].name : i \in {j \in DOMAIN operation.parameters :
                                              operation.parameters[j].in = in}}

\* the template with every segment that is the placeholder of a name in `names`
\* replaced by the encoded argument
ExpectedUrl(path, names, args) ==
    join([i \in DOMAIN split(path, "/") |->
            IF \E n \in names : split(path, "/")[i] = Placeholder(n)
            THEN encodeURIComponent(StringOf(
                    args[CHOOSE n \in names : split(path, "/")[i] = Placeholder(n)]))
            ELSE split(path, "/")[i]],
         Slash)

\* C6: in a request, the placeholder of every declared path parameter that has an
\* argument is replaced by the URL-encoded argument and no longer occurs in the URL;
\* every declared query parameter that has an argument is in the query mapping with
\* its value; nothing else changes the URL or the query mapping.
C6_PathAndQueryBinding ==
    (ProbeRequest /\ probe.args # Undefined) =>
        LET e == FoundEntry(probe.before, probe.name)
            pathNames == DeclaredParameters(e.operation, "path") \cap DOMAIN probe.args
            queryNames == DeclaredParameters(e.operation, "query") \cap DOMAIN probe.args
        IN /\ probe.out.url = ExpectedUrl(e.path, pathNames, probe.args)
           /\ \A n \in pathNames : indexOf(probe.out.url, Placeholder(n)) = 0
           /\ probe.out.params = [k \in queryNames |-> probe.args[k]]

NonPlaceholderParts(path) ==
    SelectSeq(split(path, "/"), LAMBDA part : part # <<>> /\ Head(part) # "{")

ProbeName == probe # None /\ probe.op = "generateToolName"

\* C7: generateToolName returns the operationId when there is one; otherwise the
\* method, "_", and the non-placeholder path segments joined by "_", so that two paths
\* with the same non-placeholder segments get the same name, and no part of a
\* placeholder segment is in the name.
C7_ToolNameIsPure ==
    ProbeName =>
        /\ probe.operationId # NoId => probe.value = probe.operationId
        /\ probe.operationId = NoId =>
              /\ \A p2 \in ProbePaths :
                    NonPlaceholderParts(p2) = NonPlaceholderParts(probe.path) =>
                        generateToolName(probe.method, p2, Operation(NoId, <<>>, NoNode))
                            = probe.value
              /\ SubSeq(probe.value, 1, Len(probe.method) + 1) = probe.method \o <<"_">>
              /\ Len(probe.value) =
                    Len(probe.method) + 1 + Len(join(NonPlaceholderParts(probe.path), <<"_">>))
              /\ \A i \in DOMAIN probe.value : IsWordChar(probe.value[i])

\* C7 witness: a name synthesised from a path with two placeholder segments
C7_Witness ==
    /\ ProbeName
    /\ probe.operationId = NoId
    /\ probe.path = PathFabIdNode
    /\ probe.value = GET \o <<"_","f","a","b","_","n">>

Generated == phase \in {"loaded", "serving"} /\ openApiSpec.hasPaths
Exposed(spec) == SelectSeq(spec.entries, LAMBDA e : e.operation.wellFormed)

RequiredParameters(operation) ==
    {operation.parameters[i].name : i \in {j \in DOMAIN operation.parameters :
        operation.parameters[j].in \in {"path", "query"} /\ operation.parameters[j].required}}

RequiredBodyKeys(spec, e) ==
    IF ~IsMutating(e.method) \/ DeclaredBodyKeys(spec, e.operation) = {} THEN {}
    ELSE DeclaredBodyKeys(spec, e.operation) \cap
         Range(spec.heap[resolveSchemaRef(spec, BodySchema(spec, e.operation))].required)

\* C8: the required set of every generated tool is the path/query parameters flagged
\* required plus, for post/put/patch, the body-schema properties listed in the
\* schema's required; every required name is a property of the input schema; an
\* operation without parameters and request body has no properties and no required.
C8_RequiredSet ==
    Generated =>
        /\ Len(tools) = Len(Exposed(openApiSpec))
        /\ \A i \in DOMAIN tools :
              /\ Range(tools[i].inputSchema.required) =
                    RequiredParameters(Exposed(openApiSpec)[i].operation)
                    \cup RequiredBodyKeys(openApiSpec, Exposed(openApiSpec)[i])
              /\ Range(tools[i].inputSchema.required) \subseteq DOMAIN tools[i].inputSchema.properties
              /\ (/\ Exposed(openApiSpec)[i].operation.parameters = <<>>
                  /\ Exposed(openApiSpec)[i].operation.requestBody = NoNode) =>
                     /\ DOMAIN tools[i].inputSchema.properties = {}
                     /\ tools[i].inputSchema.required = <<>>

\* C8 witness: a generated tool requires a path parameter and a body property
C8_Witness ==
    /\ Generated
    /\ \E i \in DOMAIN tools :
          /\ kId \in Range(tools[i].inputSchema.required)
          /\ kNm \in Range(tools[i].inputSchema.required)
          /\ tools[i].inputSchema.properties[kNm].kind = "schema"

\* C9: every call that comes with an argument mapping is answered after at most one
\* HTTP request: exactly one when the tool name resolves to an operation, none when it
\* does not; a call whose request failed is answered without another request.
C9_OneRequestPerResolvedCall ==
    /\ \A c \in CallIds : calls[c] # Idle => calls[c].requests = 1
    /\ (Answered /\ response.args # Undefined) =>
          response.requests = IF Resolves(openApiSpec, response.name) THEN 1 ELSE 0

\* C10: in every state after startup the loaded document and the tool descriptors are
\* the ones generation left.
C10_ReadOnlyAfterStartup ==
    (Serving /\ specFile.k = "json") =>
        /\ openApiSpec = generateTools(specFile.doc, <<>>).spec
        /\ tools = generateTools(specFile.doc, <<>>).tools

InFlight == \E c \in CallIds : calls[c] # Idle

\* C11: a tool-list or tool-call request is handled only when the server is serving,
\* and then the document is loaded and the registry is the complete result of tool
\* generation on the specification file.
C11_StartupIsSequential ==
    (response # None \/ InFlight) =>
        /\ Serving
        /\ openApiSpec # Null
        /\ specFile.k = "json"
        /\ tools = generateTools(specFile.doc, <<>>).tools

\* C11 witness: a tool-list request was answered with the generated descriptors
C11_Witness ==
    /\ response # None
    /\ response.kind = "list"
    /\ Len(response.tools) > 1

\* C12: in every serving state the registry holds one descriptor for every well-formed
\* entry of the specification file, in iteration order; without a token, or with a
\* missing, unreadable or malformed file, the process never gets past construction
\* other than by exiting.
C12_CompleteOrFatal ==
    /\ Serving =>
          /\ tokenSet
          /\ specFile.k = "json"
          /\ Len(tools) = Len(Exposed(specFile.doc))
          /\ \A i \in DOMAIN tools : tools[i].name = NameOf(Exposed(specFile.doc)[i])
    /\ ~tokenSet => phase \in {"start", "exited"}
    /\ specFile.k # "json" => phase \in {"start", "constructed", "exited"}

\* C12 witness: the server serves a document with an entry that is not an operation,
\* and the registry has the descriptors of all the others
C12_Witness ==
    /\ Serving
    /\ Len(specFile.doc.entries) = 5
    /\ Len(tools) = 4

-----------------------------------------------------------------------------
(* The schema a deepResolveSchema application returned, as an object graph *)

\* the objects in the properties and items slots of an object
Children(spec, n) ==
    {spec.heap[n].props[i][2] : i \in DOMAIN spec.heap[n].props}
        \cup ({spec.heap[n].items} \ {NoNode})

RECURSIVE ReachFrom(_, _, _)
ReachFrom(spec, frontier, seen) ==
    IF frontier \subseteq seen THEN seen
    ELSE ReachFrom(spec, UNION {Children(spec, n) : n \in frontier \ seen}, seen \cup frontier)

\* the objects of the schema n: n and everything under its properties and items
Reachable(spec, n) == ReachFrom(spec, {n}, {})
\* the objects strictly below n
Below(spec, n) == ReachFrom(spec, Children(spec, n), {})
\* the schema n contains itself: it has no finite unfolding
Cyclic(spec, n) == \E m \in Reachable(spec, n) : m \in Below(spec, m)

ResolvedOnce == probe # None /\ probe.op = "deepResolveSchema"
ResolvedTwice == probe # None /\ probe.op = "deepResolveSchemaTwice"

\* C13: deepResolveSchema, applied to a schema of a parsed document (a finite
\* structure, whatever its references), returns a finite structure: the schema it
\* returns does not contain itself under its properties and items.
C13_TruncatedAtBound ==
    (ResolvedOnce /\ ~Cyclic(probe.before, probe.node)) =>
        ~Cyclic(openApiSpec, probe.value)

\* some object of the schema n carries a $ref
HasRef(spec, n) == \E m \in Reachable(spec, n) : spec.heap[m].ref # NoRef

\* the schema n is the same objects with the same contents in both documents
SameSchema(a, b, n) ==
    /\ Reachable(a, n) = Reachable(b, n)
    /\ \A m \in Reachable(a, n) : a.heap[m] = b.heap[m]

\* C14, first half: deepResolveSchema applied to a schema with no $ref anywhere
\* returns that object and leaves the document as it was.
NoRefUnchanged ==
    (ResolvedOnce /\ ~HasRef(probe.before, probe.node)) =>
        /\ probe.value = probe.node
        /\ openApiSpec = probe.before

\* C14: deepResolveSchema returns a schema with no $ref anywhere unchanged, and a
\* second application, to the schema a first application returned, returns that
\* same schema: the same object with the same contents.
C14_Idempotent ==
    /\ NoRefUnchanged
    /\ ResolvedTwice =>
          /\ probe.value = probe.first.value
          /\ SameSchema(openApiSpec, probe.first.spec, probe.value)

\* the object a $ref of n points at, where there is one
Target(spec, n) ==
    IF spec.heap[n].ref # NoRef /\ Walk(spec, spec.heap[n].ref) # NoNode
    THEN {Walk(spec, spec.heap[n].ref)} ELSE {}

RECURSIVE RefClosure(_, _, _)
\* the objects met from the frontier through properties, items and references
RefClosure(spec, frontier, seen) ==
    IF frontier \subseteq seen THEN seen
    ELSE RefClosure(spec,
                    UNION {Children(spec, n) \cup Target(spec, n) : n \in frontier \ seen},
                    seen \cup frontier)

\* every reference of the schema n, and of what it refers to, has a target, and
\* no object is met again from itself
ResolvableAndAcyclic(spec, n) ==
    \A m \in RefClosure(spec, {n}, {}) :
        /\ spec.heap[m].ref # NoRef => Target(spec, m) # {}
        /\ m \notin RefClosure(spec, Children(spec, m) \cup Target(spec, m), {})

RECURSIVE Within(_, _, _)
\* the objects at nesting depth at most k under the frontier
Within(spec, frontier, k) ==
    IF k = 0 THEN frontier
    ELSE frontier \cup Within(spec, UNION {Children(spec, n) : n \in frontier}, k - 1)

\* C15, second half: a reference without a target is returned as the object it is,
\* and the document is left as it was.
UnresolvableLeftAsIs ==
    (ResolvedOnce /\ probe.before.heap[probe.node].ref # NoRef
                  /\ Target(probe.before, probe.node) = {}) =>
        /\ probe.value = probe.node
        /\ openApiSpec = probe.before

\* C15: after deepResolveSchema(node, 0) on a schema whose references are all
\* resolvable and acyclic, no object at nesting depth at most 5 under the returned
\* schema carries a $ref; an unresolvable reference is returned as it is.
C15_FullInlining ==
    /\ UnresolvableLeftAsIs
    /\ (ResolvedOnce /\ ResolvableAndAcyclic(probe.before, probe.node)) =>
          \A m \in Within(openApiSpec, {probe.value}, MaxResolveDepth) :
              openApiSpec.heap[m].ref = NoRef

\* the call (name, args) on its own, in the server as startup left it: the handler
\* up to its await
RunsAlone(name, args) ==
    StartCall(generateTools(specFile.doc, <<>>).spec, tools, name, args)

\* the payloads of a call that sent its request, one for each way the request settles
PayloadsAlone == {Settle([requests |-> 1], outcome).payload : outcome \in HttpOutcomes}

SameAsAlone(alone, config, requests, payload) ==
    IF alone.k = "throw"
    THEN /\ config = None
         /\ requests = 0
         /\ payload = CatchClause(alone.error)
    ELSE /\ config = alone.config
         /\ requests = 1
         /\ payload \in PayloadsAlone

AwaitingSameAsAlone(call, alone) ==
    /\ alone.k = "request"
    /\ call.config = alone.config

====
